---- MODULE Spec2Model ----
(***************************************************************************)
(* The timer engine of sandoro (cli/src/timer.rs): phase, countdown and    *)
(* count-up counters, session counter, pause flag and the sub-second       *)
(* accumulator that drives tick().                                         *)
(*                                                                         *)
(* Time is measured in sub-second units: one second is SubPerSec units.    *)
(* The Instant `last_tick` is held as its age, since_last_tick, which is   *)
(* `Instant::now() - self.last_tick` at the moment of reading; the wall    *)
(* clock moving forward is the action Advance.                             *)
(***************************************************************************)
EXTENDS Integers, Sequences, FiniteSets, TLC

VARIABLES
    timer,        \* the Timer struct
    run_wall,     \* observer: wall-clock units charged by ticks in the current run
    run_applied,  \* observer: simulated seconds applied by ticks in the current run
    run_carry,    \* observer: accumulator content when the current run began
    nskips,       \* observer: number of skip() calls made so far
    run_clock,    \* observer: wall-clock units passed since the current run began
    pause_clock,  \* observer: wall-clock units that passed during the last pause
    settings_clock, \* observer: wall-clock units passed in the Settings view
                    \* since the timer last read the clock
    app           \* the App struct without its timer field

vars == <<timer, run_wall, run_applied, run_carry, nskips, run_clock, pause_clock,
          settings_clock, app>>

observers == <<run_wall, run_applied, run_carry, nskips, run_clock, pause_clock,
               settings_clock>>

-----------------------------------------------------------------------------
(* Bounds of the model *)

SubPerSec == 2

MaxGap == 3

MaxSessions == 2

MaxSessionCount == 3

MaxElapsed == 2

MaxRemaining == 61

MaxSkips == 18

MaxWall == 6

MaxSnoozes == 2

(* Constants of the program *)

SecsPerMin == 60

MinBreakSecs == 60

BreakDivisor == 5

DefaultSessions == 4

(* the settings editor: work and long break move by 5 within 5 .. 60,     *)
(* the short break by 1 within 1 .. 30                                     *)
DurationStep == 5

DurationMax == 60

ShortBreakMax == 30

(* u32::MAX div 60, and 2^32 - 60 * (u32::MAX div 60) *)
U32MaxMinutes == 71582788

U32Residue == 16

-----------------------------------------------------------------------------
(* TimerState *)

Work == "Work"

ShortBreak == "ShortBreak"

LongBreak == "LongBreak"

TimerState == {Work, ShortBreak, LongBreak}

Max(a, b) == IF a >= b THEN a ELSE b

(* minutes * 60 in u32, as a release build computes it: the product        *)
(* modulo 2^32 = 60 * U32MaxMinutes + U32Residue, for minutes up to        *)
(* 2 * U32MaxMinutes. A debug build panics where the product wraps         *)
minutes_to_seconds(minutes) ==
    IF minutes <= U32MaxMinutes
    THEN minutes * SecsPerMin
    ELSE (minutes - U32MaxMinutes) * SecsPerMin - U32Residue

(* the product minutes * 60 is defined in u32: no panic, no wrap *)
minutes_to_seconds_defined(minutes) == minutes <= U32MaxMinutes

(* Duration::from_secs(1) in sub-second units *)
OneSecond == SubPerSec

-----------------------------------------------------------------------------
(* Timer: construction *)

with_sessions(work_minutes, short_break_minutes, long_break_minutes, sessions) ==
    [ state                     |-> Work,
      remaining_seconds         |-> minutes_to_seconds(work_minutes),
      elapsed_seconds           |-> 0,
      is_paused                 |-> TRUE,
      work_duration             |-> work_minutes,
      short_break_duration      |-> short_break_minutes,
      long_break_duration       |-> long_break_minutes,
      sessions_until_long_break |-> sessions,
      session_count             |-> 1,
      since_last_tick           |-> 0,
      accumulated               |-> 0,
      is_flowtime               |-> FALSE,
      flowtime_break_seconds    |-> 0 ]

new(work_minutes, short_break_minutes, long_break_minutes) ==
    with_sessions(work_minutes, short_break_minutes, long_break_minutes, DefaultSessions)

(* `self.is_flowtime && self.state == TimerState::Work` *)
FlowtimeWork(t) == t.is_flowtime /\ t.state = Work

duration_for_state(t, s) ==
    CASE s = Work       -> t.work_duration
      [] s = ShortBreak -> t.short_break_duration
      [] s = LongBreak  -> t.long_break_duration

-----------------------------------------------------------------------------
(* Timer: operations, each a function from the struct to the struct *)

set_flowtime_zeroing_always(t, enabled) ==
    [t EXCEPT !.is_flowtime = enabled,
              !.elapsed_seconds = IF enabled THEN 0 ELSE @]

set_flowtime_rearming(t, enabled) ==
    LET t1 == [t EXCEPT !.is_flowtime = enabled]
    IN  IF enabled /\ t1.state = Work
        THEN [t1 EXCEPT !.elapsed_seconds = 0]
        ELSE [t1 EXCEPT !.remaining_seconds =
                            minutes_to_seconds(duration_for_state(t1, t1.state))]

set_flowtime(t, enabled) ==
    LET t1 == [t EXCEPT !.is_flowtime = enabled]
    IN  IF enabled /\ t1.state = Work
        THEN [t1 EXCEPT !.elapsed_seconds = 0]
        ELSE t1

next_state_off_by_one(t) ==
    CASE t.state = Work ->
            IF t.session_count > t.sessions_until_long_break
            THEN LongBreak
            ELSE ShortBreak
      [] t.state = ShortBreak -> Work
      [] t.state = LongBreak  -> Work

next_state(t) ==
    CASE t.state = Work ->
            IF t.session_count >= t.sessions_until_long_break
            THEN LongBreak
            ELSE ShortBreak
      [] t.state = ShortBreak -> Work
      [] t.state = LongBreak  -> Work

next_session_count_on_every_exit(t) ==
    CASE t.state = Work       -> t.session_count + 1
      [] t.state = ShortBreak -> t.session_count
      [] t.state = LongBreak  -> 1

next_session_count(t) ==
    CASE t.state = Work       -> t.session_count
      [] t.state = ShortBreak -> t.session_count + 1
      [] t.state = LongBreak  -> 1

transition_rearming_always(t) ==
    LET t1 == [t EXCEPT !.state = next_state(t),
                        !.session_count = next_session_count(t)]
        t2 == [t1 EXCEPT !.remaining_seconds =
                             minutes_to_seconds(duration_for_state(t1, t1.state))]
        t3 == IF FlowtimeWork(t2) THEN [t2 EXCEPT !.elapsed_seconds = 0] ELSE t2
    IN  [t3 EXCEPT !.is_paused = TRUE, !.accumulated = 0]

transition_keeps_running(t) ==
    LET t1 == [t EXCEPT !.state = next_state(t),
                        !.session_count = next_session_count(t)]
    IN  IF FlowtimeWork(t1)
        THEN [t1 EXCEPT !.elapsed_seconds = 0]
        ELSE [t1 EXCEPT !.remaining_seconds =
                            minutes_to_seconds(duration_for_state(t1, t1.state))]

transition_without_rearm(t) ==
    LET t1 == [t EXCEPT !.state = next_state(t),
                        !.session_count = next_session_count(t)]
        t2 == IF FlowtimeWork(t1) THEN [t1 EXCEPT !.elapsed_seconds = 0] ELSE t1
    IN  [t2 EXCEPT !.is_paused = TRUE, !.accumulated = 0]

transition_keeping_elapsed(t) ==
    LET t1 == [t EXCEPT !.state = next_state(t),
                        !.session_count = next_session_count(t)]
        t2 == IF FlowtimeWork(t1)
              THEN t1
              ELSE [t1 EXCEPT !.remaining_seconds =
                                  minutes_to_seconds(duration_for_state(t1, t1.state))]
    IN  [t2 EXCEPT !.is_paused = TRUE, !.accumulated = 0]

transition_to_next_state(t) ==
    LET t1 == [t EXCEPT !.state = next_state(t),
                        !.session_count = next_session_count(t)]
        t2 == IF FlowtimeWork(t1)
              THEN [t1 EXCEPT !.elapsed_seconds = 0]
              ELSE [t1 EXCEPT !.remaining_seconds =
                                  minutes_to_seconds(duration_for_state(t1, t1.state))]
    IN  [t2 EXCEPT !.is_paused = TRUE, !.accumulated = 0]

apply_second_unguarded(t) ==
    IF FlowtimeWork(t)
    THEN [t EXCEPT !.elapsed_seconds = @ + 1]
    ELSE [t EXCEPT !.remaining_seconds = @ - 1]

(* One iteration of the body of tick()'s while loop, after the subtraction *)
apply_second(t) ==
    IF FlowtimeWork(t)
    THEN [t EXCEPT !.elapsed_seconds = @ + 1]
    ELSE IF t.remaining_seconds > 0
         THEN [t EXCEPT !.remaining_seconds = @ - 1]
         ELSE t

drain_one_second(t) ==
    IF t.accumulated >= OneSecond
    THEN apply_second([t EXCEPT !.accumulated = @ - OneSecond])
    ELSE t

RECURSIVE drain(_)
drain(t) ==
    IF t.accumulated >= OneSecond
    THEN drain(apply_second([t EXCEPT !.accumulated = @ - OneSecond]))
    ELSE t

(* tick() of a running timer after its while loop, before the completion   *)
(* check                                                                   *)
drained(t) ==
    drain([t EXCEPT !.accumulated = @ + t.since_last_tick, !.since_last_tick = 0])

tick_charging_pause(t) ==
    LET t1 == drain([t EXCEPT !.accumulated = @ + t.since_last_tick,
                              !.since_last_tick = 0])
    IN  IF t.is_paused
        THEN [t1 EXCEPT !.is_paused = TRUE]
        ELSE IF (~t1.is_flowtime \/ t1.state # Work) /\ t1.remaining_seconds = 0
             THEN transition_to_next_state(t1)
             ELSE t1

tick_dropping_remainder(t) ==
    IF t.is_paused
    THEN [t EXCEPT !.since_last_tick = 0]
    ELSE LET t1 == drain([t EXCEPT !.accumulated = @ + t.since_last_tick,
                                   !.since_last_tick = 0])
             t2 == [t1 EXCEPT !.accumulated = 0]
         IN  IF (~t2.is_flowtime \/ t2.state # Work) /\ t2.remaining_seconds = 0
             THEN transition_to_next_state(t2)
             ELSE t2

tick_without_completion(t) ==
    IF t.is_paused
    THEN [t EXCEPT !.since_last_tick = 0]
    ELSE drain([t EXCEPT !.accumulated = @ + t.since_last_tick,
                         !.since_last_tick = 0])

tick_any_mode_completion(t) ==
    IF t.is_paused
    THEN [t EXCEPT !.since_last_tick = 0]
    ELSE LET t1 == drain([t EXCEPT !.accumulated = @ + t.since_last_tick,
                                   !.since_last_tick = 0])
         IN  IF t1.remaining_seconds = 0
             THEN transition_to_next_state(t1)
             ELSE t1

tick_charging_next_phase(t) ==
    IF t.is_paused
    THEN [t EXCEPT !.since_last_tick = 0]
    ELSE LET t1 == drain([t EXCEPT !.accumulated = @ + t.since_last_tick,
                                   !.since_last_tick = 0])
             excess == (t.accumulated + t.since_last_tick) \div OneSecond
                           - t.remaining_seconds
         IN  IF (~t1.is_flowtime \/ t1.state # Work) /\ t1.remaining_seconds = 0
             THEN LET t2 == transition_to_next_state(t1)
                  IN  IF FlowtimeWork(t2) \/ excess <= 0
                      THEN t2
                      ELSE [t2 EXCEPT !.remaining_seconds = Max(0, @ - excess)]
             ELSE t1

tick(t) ==
    IF t.is_paused
    THEN [t EXCEPT !.since_last_tick = 0]
    ELSE LET t1 == drain([t EXCEPT !.accumulated = @ + t.since_last_tick,
                                   !.since_last_tick = 0])
         IN  IF (~t1.is_flowtime \/ t1.state # Work) /\ t1.remaining_seconds = 0
             THEN transition_to_next_state(t1)
             ELSE t1

toggle_pause_keeping_last_tick(t) == [t EXCEPT !.is_paused = ~@]

toggle_pause_dropping_carry(t) ==
    LET t1 == [t EXCEPT !.is_paused = ~@]
    IN  IF ~t1.is_paused
        THEN [t1 EXCEPT !.since_last_tick = 0, !.accumulated = 0]
        ELSE t1

toggle_pause(t) ==
    LET t1 == [t EXCEPT !.is_paused = ~@]
    IN  IF ~t1.is_paused THEN [t1 EXCEPT !.since_last_tick = 0] ELSE t1

reset_to_work_duration(t) ==
    LET t1 == IF FlowtimeWork(t)
              THEN [t EXCEPT !.elapsed_seconds = 0]
              ELSE [t EXCEPT !.remaining_seconds = minutes_to_seconds(t.work_duration)]
    IN  [t1 EXCEPT !.is_paused = TRUE, !.accumulated = 0]

reset(t) ==
    LET t1 == IF FlowtimeWork(t)
              THEN [t EXCEPT !.elapsed_seconds = 0]
              ELSE [t EXCEPT !.remaining_seconds =
                                 minutes_to_seconds(duration_for_state(t, t.state))]
    IN  [t1 EXCEPT !.is_paused = TRUE, !.accumulated = 0]

calculated_break_seconds_no_minimum(e) == e \div BreakDivisor

calculated_break_seconds(e) == Max(MinBreakSecs, e \div BreakDivisor)

end_work_escalating(t) ==
    IF ~t.is_flowtime \/ t.state # Work
    THEN t
    ELSE [t EXCEPT !.flowtime_break_seconds = calculated_break_seconds(t.elapsed_seconds),
                   !.state = next_state(t),
                   !.remaining_seconds = calculated_break_seconds(t.elapsed_seconds),
                   !.is_paused = TRUE,
                   !.accumulated = 0]

end_work_unguarded(t) ==
    [t EXCEPT !.flowtime_break_seconds = calculated_break_seconds(t.elapsed_seconds),
              !.state = ShortBreak,
              !.remaining_seconds = calculated_break_seconds(t.elapsed_seconds),
              !.is_paused = TRUE,
              !.accumulated = 0]

end_work(t) ==
    IF ~t.is_flowtime \/ t.state # Work
    THEN t
    ELSE [t EXCEPT !.flowtime_break_seconds = calculated_break_seconds(t.elapsed_seconds),
                   !.state = ShortBreak,
                   !.remaining_seconds = calculated_break_seconds(t.elapsed_seconds),
                   !.is_paused = TRUE,
                   !.accumulated = 0]

skip_by_table(t) == transition_to_next_state(t)

skip(t) ==
    IF FlowtimeWork(t) THEN end_work(t) ELSE transition_to_next_state(t)

full_reset_keeping_session(t) ==
    [t EXCEPT !.state = Work,
              !.remaining_seconds = minutes_to_seconds(t.work_duration),
              !.elapsed_seconds = 0,
              !.is_paused = TRUE,
              !.accumulated = 0,
              !.flowtime_break_seconds = 0]

full_reset_by_toggle(t) ==
    [t EXCEPT !.state = Work,
              !.remaining_seconds = minutes_to_seconds(t.work_duration),
              !.elapsed_seconds = 0,
              !.is_paused = ~@,
              !.accumulated = 0,
              !.session_count = 1,
              !.flowtime_break_seconds = 0]

full_reset(t) ==
    [t EXCEPT !.state = Work,
              !.remaining_seconds = minutes_to_seconds(t.work_duration),
              !.elapsed_seconds = 0,
              !.is_paused = TRUE,
              !.accumulated = 0,
              !.session_count = 1,
              !.flowtime_break_seconds = 0]

add_time_where_authoritative(t, seconds) ==
    IF FlowtimeWork(t) THEN t ELSE [t EXCEPT !.remaining_seconds = @ + seconds]

add_time(t, seconds) == [t EXCEPT !.remaining_seconds = @ + seconds]

-----------------------------------------------------------------------------
(* Timer: queries *)

(* `total` of progress_percent *)
progress_total(t) == minutes_to_seconds(duration_for_state(t, t.state))

(* progress_percent evaluates the u32 subtraction total - remaining_seconds *)
progress_subtracts(t) == ~FlowtimeWork(t) /\ progress_total(t) # 0

(* the subtraction is defined in u32 (no panic in a debug build, no wrap in *)
(* a release build)                                                         *)
progress_percent_defined(t) ==
    progress_subtracts(t) => progress_total(t) >= t.remaining_seconds

progress_percent_of_remaining(t) ==
    IF FlowtimeWork(t) \/ progress_total(t) = 0
    THEN <<0, 1>>
    ELSE <<t.remaining_seconds * 100, progress_total(t)>>

(* progress_percent as the fraction <<numerator, denominator>>; the f32    *)
(* division is exact at both ends: 0 / total = 0.0 and total / total = 1.0 *)
progress_percent(t) ==
    IF FlowtimeWork(t)
    THEN <<0, 1>>
    ELSE IF progress_total(t) = 0
         THEN <<0, 1>>
         ELSE <<(progress_total(t) - t.remaining_seconds) * 100, progress_total(t)>>

(* the fraction p is the number n *)
IsPercent(p, n) == p[1] = n * p[2]

remaining_time(t) == <<t.remaining_seconds \div 60, t.remaining_seconds % 60>>

elapsed_time(t) == <<t.elapsed_seconds \div 60, t.elapsed_seconds % 60>>

display_time_of_countdown(t) == remaining_time(t)

display_time(t) == IF FlowtimeWork(t) THEN elapsed_time(t) ELSE remaining_time(t)

-----------------------------------------------------------------------------
(* App: the host of the timer. The struct is held without its timer field, *)
(* which is the variable timer; config holds the fields of Config the      *)
(* handlers read                                                           *)

TimerView == "Timer"

SettingsView == "Settings"

AppView == {TimerView, SettingsView}

Classic == "Classic"

Flowtime == "Flowtime"

FocusMode == {Classic, Flowtime}

(* Option::None of current_session_id *)
None == "None"

(* SettingsItem::all(), the items that act on the timer or its config; the *)
(* appearance items are held by Theme, the goal, tag and session items by  *)
(* Back, the last of the list                                              *)
SettingsItems ==
    <<"Theme", "WorkDuration", "ShortBreak", "LongBreak", "AutoStart",
      "FocusMode", "Back">>

(* what a handler has asked of the session recorder and the notifier:      *)
(* calls of start_session_recording that reached the database, calls of    *)
(* record_session_complete, calls of db.complete_session, and calls of     *)
(* notify_session_complete                                                 *)
NoEffects == [started |-> <<>>, recorded |-> <<>>, completed |-> <<>>, notified |-> <<>>]

(* App::new without the timer: db is whether Database::open() succeeded *)
App_new(config, db) ==
    [ view               |-> TimerView,
      settings_index     |-> 1,
      editing            |-> FALSE,
      config             |-> config,
      focus_mode_index   |-> IF config.mode = Classic THEN 0 ELSE 1,
      db                 |-> db,
      current_session_id |-> None ]

(* the timer App::new builds *)
App_new_timer(config) ==
    set_flowtime(with_sessions(config.work_duration, config.short_break,
                               config.long_break, config.sessions_until_long),
                 config.mode = Flowtime)

(* Config::default *)
DefaultConfig ==
    [ work_duration        |-> 25,
      short_break          |-> 5,
      long_break           |-> 15,
      sessions_until_long  |-> DefaultSessions,
      auto_start           |-> FALSE,
      mode                 |-> Classic,
      break_snooze_enabled |-> FALSE ]

(* the App with its timer and the requests of the handler under way *)
Host(t, a, e) == [timer |-> t, app |-> a, effects |-> e]

(* `duration` of record_session_complete *)
config_duration(config, state) ==
    CASE state = Work       -> config.work_duration
      [] state = ShortBreak -> config.short_break
      [] state = LongBreak  -> config.long_break

(* ok: db.start_session returned Ok(id); the id is held as the session's   *)
(* type                                                                    *)
start_session_recording(h, ok) ==
    IF h.app.db
    THEN LET h1 == [h EXCEPT !.effects.started = Append(@, h.timer.state)]
         IN  IF ok
             THEN [h1 EXCEPT !.app.current_session_id = h.timer.state]
             ELSE h1
    ELSE h

record_session_complete_always(h, state, completed) ==
    LET h1 == [h EXCEPT !.effects.recorded =
                            Append(@, [state |-> state, completed |-> completed])]
        h2 == IF h1.app.db /\ h1.app.current_session_id # None
              THEN [h1 EXCEPT !.effects.completed =
                        Append(@, [session  |-> h1.app.current_session_id,
                                   duration |-> minutes_to_seconds(
                                                    config_duration(h1.app.config, state))])]
              ELSE h1
    IN  [h2 EXCEPT !.app.current_session_id = None]

record_session_complete(h, state, completed) ==
    LET h1 == [h EXCEPT !.effects.recorded =
                            Append(@, [state |-> state, completed |-> completed])]
        h2 == IF h1.app.db /\ h1.app.current_session_id # None /\ completed
              THEN [h1 EXCEPT !.effects.completed =
                        Append(@, [session  |-> h1.app.current_session_id,
                                   duration |-> minutes_to_seconds(
                                                    config_duration(h1.app.config, state))])]
              ELSE h1
    IN  [h2 EXCEPT !.app.current_session_id = None]

App_tick_recording_breaks(h, ok) ==
    IF h.app.view = TimerView
    THEN LET was_running == ~h.timer.is_paused
             old_state == h.timer.state
             h1 == [h EXCEPT !.timer = tick(h.timer)]
         IN  IF was_running /\ h1.timer.is_paused /\ h1.timer.state # old_state
             THEN LET h2 == record_session_complete(h1, old_state, TRUE)
                      h3 == [h2 EXCEPT !.effects.notified = Append(@, old_state)]
                  IN  IF h3.app.config.auto_start
                      THEN start_session_recording(
                               [h3 EXCEPT !.timer = toggle_pause(h3.timer)], ok)
                      ELSE h3
             ELSE h1
    ELSE h

App_tick(h, ok) ==
    IF h.app.view = TimerView
    THEN LET was_running == ~h.timer.is_paused
             old_state == h.timer.state
             h1 == [h EXCEPT !.timer = tick(h.timer)]
         IN  IF was_running /\ h1.timer.is_paused /\ h1.timer.state # old_state
             THEN LET h2 == record_session_complete(h1, old_state, TRUE)
                      h3 == [h2 EXCEPT !.effects.notified = Append(@, old_state)]
                  IN  IF h3.app.config.auto_start
                      THEN LET h4 == [h3 EXCEPT !.timer = toggle_pause(h3.timer)]
                           IN  IF h4.timer.state = Work
                               THEN start_session_recording(h4, ok)
                               ELSE h4
                      ELSE h3
             ELSE h1
    ELSE h

App_toggle_pause_recording_any_phase(h, ok) ==
    LET was_paused == h.timer.is_paused
        h1 == [h EXCEPT !.timer = toggle_pause(h.timer)]
    IN  IF was_paused /\ ~h1.timer.is_paused /\ h1.app.current_session_id = None
        THEN start_session_recording(h1, ok)
        ELSE h1

App_toggle_pause(h, ok) ==
    LET was_paused == h.timer.is_paused
        h1 == [h EXCEPT !.timer = toggle_pause(h.timer)]
    IN  IF was_paused /\ ~h1.timer.is_paused /\ h1.timer.state = Work
           /\ h1.app.current_session_id = None
        THEN start_session_recording(h1, ok)
        ELSE h1

App_reset(h) ==
    [h EXCEPT !.app.current_session_id = None, !.timer = reset(h.timer)]

App_full_reset(h) ==
    [h EXCEPT !.app.current_session_id = None, !.timer = full_reset(h.timer)]

App_skip_as_completed(h) ==
    record_session_complete([h EXCEPT !.timer = skip(h.timer)], h.timer.state, TRUE)

App_skip(h) ==
    record_session_complete([h EXCEPT !.timer = skip(h.timer)], h.timer.state, FALSE)

App_snooze_break_by_timer_state(h) ==
    IF h.app.config.break_snooze_enabled
    THEN [h EXCEPT !.timer = add_time(h.timer, minutes_to_seconds(
                                 config_duration(h.app.config, h.timer.state)))]
    ELSE h

App_snooze_break(h) ==
    IF ~h.app.config.break_snooze_enabled
    THEN h
    ELSE CASE h.timer.state = ShortBreak ->
                  [h EXCEPT !.timer = add_time(h.timer,
                                minutes_to_seconds(h.app.config.short_break))]
           [] h.timer.state = LongBreak ->
                  [h EXCEPT !.timer = add_time(h.timer,
                                minutes_to_seconds(h.app.config.long_break))]
           [] h.timer.state = Work -> h

(* the three lines every change of the focus mode ends with *)
set_focus_mode(h, index) ==
    LET mode == IF index = 0 THEN Classic ELSE Flowtime
    IN  [h EXCEPT !.app.focus_mode_index = index,
                  !.app.config.mode = mode,
                  !.timer = set_flowtime(h.timer, mode = Flowtime)]

cycle_focus_mode(h) == set_focus_mode(h, (h.app.focus_mode_index + 1) % 2)

toggle_settings_rebasing(h) ==
    [h EXCEPT !.app.view = IF @ = TimerView THEN SettingsView ELSE TimerView,
              !.app.editing = FALSE,
              !.timer.since_last_tick = 0]

toggle_settings(h) ==
    [h EXCEPT !.app.view = IF @ = TimerView THEN SettingsView ELSE TimerView,
              !.app.editing = FALSE]

apply_settings(h) ==
    LET duration_changed ==
            \/ h.timer.work_duration # h.app.config.work_duration
            \/ h.timer.short_break_duration # h.app.config.short_break
            \/ h.timer.long_break_duration # h.app.config.long_break
            \/ h.timer.sessions_until_long_break # h.app.config.sessions_until_long
    IN  IF duration_changed
        THEN [h EXCEPT !.timer = with_sessions(h.app.config.work_duration,
                                               h.app.config.short_break,
                                               h.app.config.long_break,
                                               h.app.config.sessions_until_long)]
        ELSE h

(* SettingsItem::all()[self.settings_index] *)
settings_item(h) == SettingsItems[h.app.settings_index]

settings_up(h) ==
    IF h.app.editing
    THEN CASE settings_item(h) = "WorkDuration" ->
                  IF h.app.config.work_duration < DurationMax
                  THEN [h EXCEPT !.app.config.work_duration = @ + DurationStep]
                  ELSE h
           [] settings_item(h) = "ShortBreak" ->
                  IF h.app.config.short_break < ShortBreakMax
                  THEN [h EXCEPT !.app.config.short_break = @ + 1]
                  ELSE h
           [] settings_item(h) = "LongBreak" ->
                  IF h.app.config.long_break < DurationMax
                  THEN [h EXCEPT !.app.config.long_break = @ + DurationStep]
                  ELSE h
           [] settings_item(h) = "AutoStart" ->
                  [h EXCEPT !.app.config.auto_start = ~@]
           [] settings_item(h) = "FocusMode" ->
                  set_focus_mode(h, IF h.app.focus_mode_index > 0
                                    THEN h.app.focus_mode_index - 1
                                    ELSE 1)
           [] OTHER -> h
    ELSE IF h.app.settings_index > 1
         THEN [h EXCEPT !.app.settings_index = @ - 1]
         ELSE h

settings_down(h) ==
    IF h.app.editing
    THEN CASE settings_item(h) = "WorkDuration" ->
                  IF h.app.config.work_duration > DurationStep
                  THEN [h EXCEPT !.app.config.work_duration = @ - DurationStep]
                  ELSE h
           [] settings_item(h) = "ShortBreak" ->
                  IF h.app.config.short_break > 1
                  THEN [h EXCEPT !.app.config.short_break = @ - 1]
                  ELSE h
           [] settings_item(h) = "LongBreak" ->
                  IF h.app.config.long_break > DurationStep
                  THEN [h EXCEPT !.app.config.long_break = @ - DurationStep]
                  ELSE h
           [] settings_item(h) = "AutoStart" ->
                  [h EXCEPT !.app.config.auto_start = ~@]
           [] settings_item(h) = "FocusMode" ->
                  set_focus_mode(h, IF h.app.focus_mode_index < 1
                                    THEN h.app.focus_mode_index + 1
                                    ELSE 0)
           [] OTHER -> h
    ELSE IF h.app.settings_index < Len(SettingsItems)
         THEN [h EXCEPT !.app.settings_index = @ + 1]
         ELSE h

settings_select(h) ==
    CASE settings_item(h) = "Back" ->
             [h EXCEPT !.app.view = TimerView, !.app.editing = FALSE]
      [] settings_item(h) = "AutoStart" ->
             apply_settings([h EXCEPT !.app.config.auto_start = ~@])
      [] OTHER ->
             IF h.app.editing
             THEN apply_settings([h EXCEPT !.app.editing = FALSE])
             ELSE [h EXCEPT !.app.editing = TRUE]

(* Tab or Esc in the Settings view *)
settings_leave(h) ==
    IF h.app.editing THEN [h EXCEPT !.app.editing = FALSE] ELSE toggle_settings(h)

(* the engine used on its own: the host takes no part and stays as built *)
Unhosted ==
    /\ run_clock = 0
    /\ pause_clock = 0
    /\ settings_clock = 0
    /\ app = App_new(DefaultConfig, FALSE)

-----------------------------------------------------------------------------
(* The engine driven by any caller: every operation, in any order *)

(* <<work, short break, long break>> minutes; a configured duration may be 0 *)
DurationChoices == {<<1, 1, 1>>, <<0, 0, 0>>, <<0, 1, 1>>}

Sessions == 1 .. MaxSessions

Gaps == 1 .. MaxGap

SnoozeSeconds == {1, SecsPerMin}

(* the counters the model caps *)
WithinBounds(t) ==
    /\ t.elapsed_seconds <= MaxElapsed
    /\ t.session_count <= MaxSessionCount
    /\ t.remaining_seconds <= MaxRemaining

Init ==
    /\ \E d \in DurationChoices, n \in Sessions :
          timer = with_sessions(d[1], d[2], d[3], n)
    /\ run_wall = 0
    /\ run_applied = 0
    /\ run_carry = 0
    /\ nskips = 0
    /\ Unhosted

(* the wall clock moves on by d units; no call is made *)
Advance ==
    \E d \in Gaps :
        /\ timer.since_last_tick + d <= MaxGap
        /\ timer' = [timer EXCEPT !.since_last_tick = @ + d]
        /\ UNCHANGED <<app, observers>>

Tick ==
    /\ WithinBounds(tick(timer))
    /\ timer' = tick(timer)
    /\ UNCHANGED <<app, observers>>

TogglePause ==
    /\ timer' = toggle_pause(timer)
    /\ UNCHANGED <<app, observers>>

Reset ==
    /\ timer' = reset(timer)
    /\ UNCHANGED <<app, observers>>

FullReset ==
    /\ timer' = full_reset(timer)
    /\ UNCHANGED <<app, observers>>

Skip ==
    /\ WithinBounds(skip(timer))
    /\ timer' = skip(timer)
    /\ UNCHANGED <<app, observers>>

EndWork ==
    /\ timer' = end_work(timer)
    /\ UNCHANGED <<app, observers>>

AddTime ==
    \E s \in SnoozeSeconds :
        /\ WithinBounds(add_time(timer, s))
        /\ timer' = add_time(timer, s)
        /\ UNCHANGED <<app, observers>>

SetFlowtime ==
    \E enabled \in BOOLEAN :
        /\ timer' = set_flowtime(timer, enabled)
        /\ UNCHANGED <<app, observers>>

Next ==
    \/ Advance
    \/ Tick
    \/ TogglePause
    \/ Reset
    \/ FullReset
    \/ Skip
    \/ EndWork
    \/ AddTime
    \/ SetFlowtime

Spec == Init /\ [][Next]_vars

-----------------------------------------------------------------------------
(* A fresh classic timer on which only skip() is called *)

CycleSkip ==
    /\ nskips < MaxSkips
    /\ timer' = skip(timer)
    /\ nskips' = nskips + 1
    /\ UNCHANGED <<run_wall, run_applied, run_carry, run_clock, pause_clock, app, settings_clock>>

NextCycle == CycleSkip

SpecCycle == Init /\ [][NextCycle]_vars

(* C1: from a fresh classic timer with sessions_until_long_break = n, the  *)
(* k-th skip() leaves (phase, session_count) at position k of the cycle    *)
(* Work(1), ShortBreak(1), ..., Work(n), LongBreak(n), Work(1), ...        *)
C1_ClassicCycleLaw ==
    LET n == timer.sessions_until_long_break
        k == nskips % (2 * n)
    IN  IF k % 2 = 0
        THEN timer.state = Work /\ timer.session_count = (k \div 2) + 1
        ELSE IF k = 2 * n - 1
             THEN timer.state = LongBreak /\ timer.session_count = n
             ELSE timer.state = ShortBreak /\ timer.session_count = (k + 1) \div 2

(* a second cycle has begun after a long break, with more than one session *)
C1_Witness ==
    /\ timer.sessions_until_long_break > 1
    /\ nskips = 2 * timer.sessions_until_long_break + 1
    /\ timer.state = ShortBreak
    /\ timer.session_count = 1

-----------------------------------------------------------------------------
(* Claims about the engine under every operation (Spec) *)

(* a step that is a call of tick() *)
TickStep == timer' = tick(timer)

(* the countdown is authoritative: not flowtime Work *)
Countdown(t) == ~t.is_flowtime \/ t.state # Work

(* whole seconds a running tick() drains from the accumulator *)
WholeSeconds(t) == (t.accumulated + t.since_last_tick) \div SubPerSec

(* C2: in every reachable state 1 <= session_count <=                      *)
(* sessions_until_long_break                                               *)
C2_SessionCountInRange ==
    /\ 1 <= timer.session_count
    /\ timer.session_count <= timer.sessions_until_long_break

(* C4: a tick() made while paused, after any amount of wall-clock time,    *)
(* leaves remaining_seconds, elapsed_seconds, the accumulator, the phase   *)
(* and session_count unchanged                                             *)
C4_PauseIsolatesTime ==
    [][(timer.is_paused /\ TickStep) =>
          /\ timer'.remaining_seconds = timer.remaining_seconds
          /\ timer'.elapsed_seconds = timer.elapsed_seconds
          /\ timer'.accumulated = timer.accumulated
          /\ timer'.state = timer.state
          /\ timer'.session_count = timer.session_count
          /\ timer'.is_paused]_vars

(* paused in mid-countdown with a sub-second carry, wall-clock time having *)
(* passed since the last call                                              *)
C4_Witness ==
    /\ timer.is_paused
    /\ timer.since_last_tick = MaxGap
    /\ timer.accumulated > 0
    /\ timer.remaining_seconds > 0
    /\ timer.remaining_seconds < progress_total(timer)

(* C5: remaining_seconds never goes below 0, and a tick() changes the      *)
(* phase exactly when the timer was running, the countdown is              *)
(* authoritative and remaining_seconds is 0 once the whole seconds are     *)
(* drained                                                                 *)
C5_SaturatingCountdown ==
    /\ [](timer.remaining_seconds >= 0)
    /\ [][TickStep =>
            ((timer'.state # timer.state) <=>
                /\ ~timer.is_paused
                /\ Countdown(timer)
                /\ timer.remaining_seconds <= WholeSeconds(timer))]_vars

(* running countdown in which the next tick drains two seconds with one    *)
(* second remaining                                                        *)
C5_Witness ==
    /\ ~timer.is_paused
    /\ Countdown(timer)
    /\ timer.remaining_seconds = 1
    /\ WholeSeconds(timer) = 2

(* C6: after a tick(), skip() or end_work() that changes the phase the     *)
(* timer is paused and the accumulator is zero                             *)
C6_TransitionLandsPaused ==
    [][((TickStep \/ timer' = skip(timer) \/ timer' = end_work(timer))
            /\ timer'.state # timer.state) =>
          (timer'.is_paused /\ timer'.accumulated = 0)]_vars

(* a running ShortBreak holding a sub-second carry whose last second is    *)
(* about to be drained by the next tick                                    *)
C6_Witness ==
    /\ ~timer.is_paused
    /\ timer.accumulated > 0
    /\ timer.state = ShortBreak
    /\ timer.remaining_seconds = 1
    /\ timer.since_last_tick = SubPerSec

(* C8: progress_percent's subtraction total - remaining_seconds is defined *)
(* in every reachable state                                                *)
C8_ProgressPercentDefined == progress_percent_defined(timer)

(* C9: a tick() in flowtime Work changes neither the phase, the pause flag *)
(* nor remaining_seconds; it adds the drained whole seconds to             *)
(* elapsed_seconds                                                         *)
C9_FlowtimeWorkNeverTransitions ==
    [][(FlowtimeWork(timer) /\ TickStep) =>
          /\ timer'.state = Work
          /\ timer'.is_paused = timer.is_paused
          /\ timer'.remaining_seconds = timer.remaining_seconds
          /\ timer'.elapsed_seconds = timer.elapsed_seconds +
                (IF timer.is_paused THEN 0 ELSE WholeSeconds(timer))]_vars

(* flowtime Work running with remaining_seconds = 0 and two seconds about  *)
(* to be drained                                                           *)
C9_Witness ==
    /\ FlowtimeWork(timer)
    /\ ~timer.is_paused
    /\ timer.remaining_seconds = 0
    /\ timer.work_duration > 0
    /\ timer.elapsed_seconds = 0
    /\ WholeSeconds(timer) = 2

-----------------------------------------------------------------------------
(* Runs of the timer: the caller acts only while the timer is paused, and  *)
(* the observers measure each run from the toggle_pause() that starts it   *)

DriftDurations == {<<1, 1, 1>>, <<0, 1, 0>>}

DriftAdvance ==
    \E d \in Gaps :
        /\ timer.since_last_tick + d <= MaxGap
        /\ ~timer.is_paused => run_wall + timer.since_last_tick + d <= MaxWall
        /\ timer' = [timer EXCEPT !.since_last_tick = @ + d]
        /\ UNCHANGED <<app, observers>>

DriftTick ==
    /\ WithinBounds(tick(timer))
    /\ timer' = tick(timer)
    /\ IF timer.is_paused
       THEN UNCHANGED <<run_wall, run_applied, run_carry>>
       ELSE IF timer'.state # timer.state
            THEN run_wall' = 0 /\ run_applied' = 0 /\ run_carry' = 0
            ELSE /\ run_wall' = run_wall + timer.since_last_tick
                 /\ run_applied' = run_applied
                        + (timer.remaining_seconds - timer'.remaining_seconds)
                        + (timer'.elapsed_seconds - timer.elapsed_seconds)
                 /\ UNCHANGED run_carry
    /\ UNCHANGED <<nskips, run_clock, pause_clock, app, settings_clock>>

DriftTogglePause ==
    /\ timer' = toggle_pause(timer)
    /\ run_wall' = 0
    /\ run_applied' = 0
    /\ run_carry' = IF timer.is_paused THEN timer.accumulated ELSE 0
    /\ UNCHANGED <<nskips, run_clock, pause_clock, app, settings_clock>>

DriftSkip ==
    /\ timer.is_paused
    /\ Skip

DriftReset ==
    /\ timer.is_paused
    /\ Reset

DriftSetFlowtime ==
    /\ timer.is_paused
    /\ SetFlowtime

NextDrift ==
    \/ DriftAdvance
    \/ DriftTick
    \/ DriftTogglePause
    \/ DriftSkip
    \/ DriftReset
    \/ DriftSetFlowtime

InitDrift ==
    /\ \E d \in DriftDurations :
          timer = with_sessions(d[1], d[2], d[3], 1)
    /\ run_wall = 0
    /\ run_applied = 0
    /\ run_carry = 0
    /\ nskips = 0
    /\ Unhosted

SpecDrift == InitDrift /\ [][NextDrift]_vars

(* C3 as stated: in a run the seconds applied by the ticks equal           *)
(* floor(T), T the wall-clock time those ticks charged                     *)
C3_DriftIndependence ==
    ~timer.is_paused => run_applied = run_wall \div SubPerSec

(* C3 amended: the seconds applied equal floor(c + T), c the sub-second    *)
(* content of the accumulator when the run began; floor(T) when it was     *)
(* empty                                                                   *)
C3_DriftWithCarry ==
    ~timer.is_paused =>
        /\ run_applied = (run_carry + run_wall) \div SubPerSec
        /\ timer.accumulated = (run_carry + run_wall) % SubPerSec
        /\ run_carry = 0 => run_applied = run_wall \div SubPerSec

(* a run of irregular ticks that began with a carry and has applied one    *)
(* second more than floor(T)                                               *)
C3_Witness ==
    /\ ~timer.is_paused
    /\ run_carry > 0
    /\ run_wall >= 2 * SubPerSec + 1
    /\ run_applied = (run_wall \div SubPerSec) + 1

-----------------------------------------------------------------------------
(* end_work() over the range of elapsed_seconds: flowtime Work states with *)
(* sampled counters, as left by ticking and by earlier flowtime cycles     *)

ElapsedSamples == {0, 1, 299, 300, 304, 305, 613, 3000}

InitFlowWork ==
    /\ \E d \in DurationChoices, n \in Sessions, e \in ElapsedSamples,
          c \in 1 .. MaxSessionCount, p \in BOOLEAN :
          timer = [set_flowtime(with_sessions(d[1], d[2], d[3], n), TRUE)
                       EXCEPT !.elapsed_seconds = e,
                              !.session_count = c,
                              !.is_paused = p]
    /\ run_wall = 0
    /\ run_applied = 0
    /\ run_carry = 0
    /\ nskips = 0
    /\ Unhosted

NextFlowBreak ==
    \/ EndWork
    \/ Skip

SpecFlowBreak == InitFlowWork /\ [][NextFlowBreak]_vars

(* C7: end_work() in flowtime Work with elapsed_seconds = e sets            *)
(* remaining_seconds and flowtime_break_seconds to max(60, e div 5), the    *)
(* phase to ShortBreak whatever session_count is, and keeps session_count;  *)
(* e = 613 gives 122                                                        *)
C7_FlowtimeBreakFormula ==
    [][(FlowtimeWork(timer) /\ timer' = end_work(timer)) =>
          LET e == timer.elapsed_seconds
              fifth == e \div 5
              expected == IF fifth < 60 THEN 60 ELSE fifth
          IN  /\ timer'.remaining_seconds = expected
              /\ timer'.flowtime_break_seconds = expected
              /\ timer'.state = ShortBreak
              /\ timer'.session_count = timer.session_count
              /\ e = 613 => timer'.remaining_seconds = 122]_vars

(* the break computed from 613 seconds of work, entered where the classic  *)
(* table would have chosen LongBreak                                       *)
C7_Witness ==
    /\ timer.is_flowtime
    /\ timer.state = ShortBreak
    /\ timer.elapsed_seconds = 613
    /\ timer.remaining_seconds = 122
    /\ timer.flowtime_break_seconds = 122
    /\ timer.session_count >= timer.sessions_until_long_break

-----------------------------------------------------------------------------
(* A running timer left to the host loop: the wall clock advances and      *)
(* tick() is called, and the user does nothing                             *)

RECURSIVE skips(_, _)
skips(t, k) == IF k = 0 THEN t ELSE skips(skip(t), k - 1)

InitLive ==
    /\ \E d \in DurationChoices, n \in Sessions, f \in BOOLEAN,
          k \in 0 .. 2 * MaxSessions :
          /\ timer = toggle_pause(
                         skips(set_flowtime(with_sessions(d[1], d[2], d[3], n), f), k))
          /\ WithinBounds(timer)
    /\ run_wall = 0
    /\ run_applied = 0
    /\ run_carry = 0
    /\ nskips = 0
    /\ Unhosted

NextLive ==
    \/ Advance
    \/ Tick

SpecLive ==
    /\ InitLive
    /\ [][NextLive]_vars
    /\ WF_vars(Advance)
    /\ WF_vars(Tick)

(* the successor of phase p at session_count c in the transition table *)
Successor(t, p, c) ==
    IF p = Work
    THEN IF c >= t.sessions_until_long_break THEN LongBreak ELSE ShortBreak
    ELSE Work

(* C10: a timer running a countdown eventually is paused, and the step     *)
(* that pauses it moves the phase to its successor in the transition table *)
C10_CountdownCompletes ==
    /\ (~timer.is_paused /\ Countdown(timer)) ~> timer.is_paused
    /\ [][(~timer.is_paused /\ timer'.is_paused) =>
             timer'.state = Successor(timer, timer.state, timer.session_count)]_vars

(* a long break the ticks alone have entered, at its full length *)
C10_Witness ==
    /\ timer.is_paused
    /\ timer.state = LongBreak
    /\ timer.long_break_duration > 0
    /\ timer.remaining_seconds = timer.long_break_duration * SecsPerMin

-----------------------------------------------------------------------------
(* Claims about single operations, stated of the operation's result in     *)
(* every reachable state of Spec                                           *)

(* the configured durations and cycle length *)
Configured(t) ==
    <<t.work_duration, t.short_break_duration, t.long_break_duration,
      t.sessions_until_long_break>>

(* the result of the tick() that finds the countdown of t expired: t       *)
(* running with remaining_seconds = 0                                      *)
ExpiredTick(t) == tick([t EXCEPT !.remaining_seconds = 0, !.is_paused = FALSE])

(* the result of the table of transitions applied to t, field by field *)
TableResult(t) ==
    LET p == IF t.state = Work
             THEN IF t.session_count >= t.sessions_until_long_break
                  THEN LongBreak ELSE ShortBreak
             ELSE Work
        c == IF t.state = ShortBreak THEN t.session_count + 1
             ELSE IF t.state = LongBreak THEN 1 ELSE t.session_count
        minutes == IF p = Work THEN t.work_duration
                   ELSE IF p = ShortBreak THEN t.short_break_duration
                   ELSE t.long_break_duration
    IN  [t EXCEPT !.state = p,
                  !.session_count = c,
                  !.remaining_seconds = IF t.is_flowtime /\ p = Work THEN @ ELSE minutes * 60,
                  !.elapsed_seconds = IF t.is_flowtime /\ p = Work THEN 0 ELSE @,
                  !.is_paused = TRUE,
                  !.accumulated = 0]

(* C11 as stated: skip() in flowtime Work gives the state of end_work():   *)
(* ShortBreak with the computed break length; anywhere else it gives the   *)
(* state the automatic transition gives, whatever remaining_seconds and    *)
(* the pause flag are (the last-tick timestamp apart)                      *)
C11_SkipEquivalence ==
    LET s == skip(timer)
        fifth == timer.elapsed_seconds \div 5
    IN  IF timer.is_flowtime /\ timer.state = Work
        THEN /\ s = end_work(timer)
             /\ s.state = ShortBreak
             /\ s.remaining_seconds = (IF fifth < 60 THEN 60 ELSE fifth)
             /\ s.session_count = timer.session_count
        ELSE s = [ExpiredTick(timer) EXCEPT !.since_last_tick = timer.since_last_tick]

(* C11 amended: anywhere else skip() gives the result of the table, which  *)
(* is the automatic transition's state except that a flowtime break ->     *)
(* Work leaves remaining_seconds at its current value, where the automatic *)
(* transition leaves the 0 it fired at                                     *)
C11_SkipByTable ==
    LET s == skip(timer)
        fifth == timer.elapsed_seconds \div 5
    IN  IF timer.is_flowtime /\ timer.state = Work
        THEN /\ s = end_work(timer)
             /\ s.state = ShortBreak
             /\ s.remaining_seconds = (IF fifth < 60 THEN 60 ELSE fifth)
             /\ s.session_count = timer.session_count
        ELSE /\ s = TableResult(timer)
             /\ s = [ExpiredTick(timer) EXCEPT
                        !.since_last_tick = timer.since_last_tick,
                        !.remaining_seconds =
                            IF timer.is_flowtime THEN timer.remaining_seconds ELSE @]

(* flowtime Work entered by skip() from a flowtime break that still had    *)
(* its 60 computed seconds: they are still in remaining_seconds            *)
C11_Witness ==
    /\ timer.is_flowtime
    /\ timer.state = Work
    /\ timer.work_duration = 0
    /\ timer.remaining_seconds = 60
    /\ timer.flowtime_break_seconds = 60
    /\ timer.elapsed_seconds = 0
    /\ timer.session_count = 2
    /\ timer.is_paused

(* C12: end_work() outside flowtime Work changes no field *)
C12_EndWorkNoOp ==
    ~(timer.is_flowtime /\ timer.state = Work) => end_work(timer) = timer

(* a running classic Work phase in mid-countdown, and a running flowtime   *)
(* break: end_work() applies to neither                                    *)
C12_Witness ==
    /\ ~timer.is_paused
    /\ timer.accumulated > 0
    /\ timer.remaining_seconds > 0
    /\ \/ ~timer.is_flowtime /\ timer.state = Work /\ timer.elapsed_seconds > 0
       \/ timer.is_flowtime /\ timer.state = LongBreak

(* C13: a table transition, by skip() or by the tick() that drains the     *)
(* countdown to 0, sets remaining_seconds to the new phase's duration * 60 *)
(* unless the new phase is Work under flowtime: then elapsed_seconds is 0  *)
(* and remaining_seconds is what it was when the transition was made       *)
C13_TransitionRearms ==
    LET s == skip(timer)
        a == tick(timer)
        Rearmed(u, before) ==
            IF u.is_flowtime /\ u.state = Work
            THEN u.elapsed_seconds = 0 /\ u.remaining_seconds = before
            ELSE u.remaining_seconds = duration_for_state(timer, u.state) * 60
    IN  /\ ~(timer.is_flowtime /\ timer.state = Work) =>
               Rearmed(s, timer.remaining_seconds)
        /\ a.state # timer.state => Rearmed(a, 0)

(* flowtime Work entered by the automatic transition out of a break:       *)
(* remaining_seconds is still the 0 the break ended with                   *)
C13_Witness ==
    /\ timer.is_flowtime
    /\ timer.state = Work
    /\ timer.work_duration > 0
    /\ timer.remaining_seconds = 0
    /\ timer.elapsed_seconds = 0
    /\ timer.session_count = 2
    /\ timer.is_paused

(* the step is a call of one of the operations that act on the counters *)
CounterActionStep ==
    \/ timer' = reset(timer)
    \/ timer' = full_reset(timer)
    \/ timer' = skip(timer)
    \/ timer' = end_work(timer)
    \/ \E sec \in SnoozeSeconds : timer' = add_time(timer, sec)

(* the step moves the phase from p to q *)
Moves(p, q) == timer.state = p /\ timer'.state = q

(* C14 as stated: session_count changes only by + 1 in a step ShortBreak   *)
(* -> Work and by being set to 1 in a step LongBreak -> Work; every other  *)
(* step leaves it unchanged                                                *)
C14_SessionCountSteps ==
    [][timer'.session_count # timer.session_count =>
          \/ Moves(ShortBreak, Work) /\ timer'.session_count = timer.session_count + 1
          \/ Moves(LongBreak, Work) /\ timer'.session_count = 1]_vars

(* C14 amended: full_reset() also sets session_count to 1, from any phase; *)
(* a table step ShortBreak -> Work adds 1, LongBreak -> Work sets 1, and   *)
(* every other step leaves it unchanged                                    *)
C14_SessionCountStepsOrFullReset ==
    [][IF timer' = full_reset(timer)
       THEN timer'.session_count = 1
       ELSE IF Moves(ShortBreak, Work)
            THEN timer'.session_count = timer.session_count + 1
            ELSE IF Moves(LongBreak, Work)
                 THEN timer'.session_count = 1
                 ELSE timer'.session_count = timer.session_count]_vars

(* a second session's short break, running: full_reset() from here sets    *)
(* session_count back to 1 in a step ShortBreak -> Work                    *)
C14_Witness ==
    /\ timer.state = ShortBreak
    /\ timer.session_count = 2
    /\ ~timer.is_flowtime
    /\ ~timer.is_paused
    /\ timer.remaining_seconds < timer.short_break_duration * 60

(* C15 as stated: while paused, remaining_seconds and elapsed_seconds      *)
(* change only in steps of reset, full_reset, skip, end_work or add_time   *)
C15_PausedCountersFrozen ==
    [][(timer.is_paused
          /\ (\/ timer'.remaining_seconds # timer.remaining_seconds
              \/ timer'.elapsed_seconds # timer.elapsed_seconds))
       => CounterActionStep]_vars

(* C15 amended: or in a step of set_flowtime(true) during Work, which sets *)
(* elapsed_seconds to 0 and leaves remaining_seconds; tick, toggle_pause   *)
(* and every other set_flowtime leave both unchanged                       *)
C15_PausedCountersFrozenButSetFlowtime ==
    [][(timer.is_paused
          /\ (\/ timer'.remaining_seconds # timer.remaining_seconds
              \/ timer'.elapsed_seconds # timer.elapsed_seconds))
       => \/ CounterActionStep
          \/ /\ timer.state = Work
             /\ timer' = set_flowtime(timer, TRUE)
             /\ timer'.elapsed_seconds = 0
             /\ timer'.remaining_seconds = timer.remaining_seconds]_vars

(* paused flowtime Work that has counted up: set_flowtime(true) from here  *)
(* zeroes elapsed_seconds                                                  *)
C15_Witness ==
    /\ timer.is_paused
    /\ timer.is_flowtime
    /\ timer.state = Work
    /\ timer.elapsed_seconds = MaxElapsed
    /\ timer.since_last_tick > 0

(* C16: full_reset() from any reachable state gives Work, session 1,       *)
(* paused, remaining_seconds = work_duration * 60, elapsed_seconds = 0,    *)
(* flowtime_break_seconds = 0 and a zero accumulator, and keeps            *)
(* is_flowtime and the configured durations                                *)
C16_FullResetResult ==
    LET s == full_reset(timer)
    IN  /\ s.state = Work
        /\ s.session_count = 1
        /\ s.is_paused
        /\ s.remaining_seconds = timer.work_duration * 60
        /\ s.elapsed_seconds = 0
        /\ s.flowtime_break_seconds = 0
        /\ s.accumulated = 0
        /\ s.is_flowtime = timer.is_flowtime
        /\ Configured(s) = Configured(timer)

(* a running flowtime long break of a later session with a sub-second      *)
(* carry and a stale count-up: every field full_reset() sets differs       *)
C16_Witness ==
    /\ timer.state = LongBreak
    /\ timer.is_flowtime
    /\ ~timer.is_paused
    /\ timer.session_count > 1
    /\ timer.elapsed_seconds > 0
    /\ timer.flowtime_break_seconds > 0
    /\ timer.accumulated > 0
    /\ timer.remaining_seconds # timer.work_duration * 60

(* C17: full_reset() twice gives the state full_reset() once gives *)
C17_FullResetIdempotent ==
    full_reset(full_reset(timer)) = full_reset(timer)

(* a running short break of session 2: a state full_reset() changes *)
C17_Witness ==
    /\ timer.state = ShortBreak
    /\ ~timer.is_paused
    /\ timer.session_count = 2
    /\ timer.accumulated > 0
    /\ full_reset(timer) # timer

(* C18: reset() keeps phase, session_count and is_flowtime, pauses and     *)
(* zeroes the accumulator; in flowtime Work it zeroes elapsed_seconds and  *)
(* keeps remaining_seconds, otherwise it sets remaining_seconds to the     *)
(* current phase's duration * 60 and keeps elapsed_seconds                 *)
C18_ResetFrame ==
    LET s == reset(timer)
        minutes == IF timer.state = Work THEN timer.work_duration
                   ELSE IF timer.state = ShortBreak THEN timer.short_break_duration
                   ELSE timer.long_break_duration
    IN  /\ s.state = timer.state
        /\ s.session_count = timer.session_count
        /\ s.is_flowtime = timer.is_flowtime
        /\ s.is_paused
        /\ s.accumulated = 0
        /\ IF timer.is_flowtime /\ timer.state = Work
           THEN /\ s.elapsed_seconds = 0
                /\ s.remaining_seconds = timer.remaining_seconds
           ELSE /\ s.remaining_seconds = minutes * 60
                /\ s.elapsed_seconds = timer.elapsed_seconds

(* a running break in mid-countdown with a carry and a stale count-up,     *)
(* whose duration is not the work duration                                 *)
C18_Witness ==
    /\ timer.state = ShortBreak
    /\ timer.short_break_duration # timer.work_duration
    /\ ~timer.is_paused
    /\ timer.accumulated > 0
    /\ timer.elapsed_seconds > 0
    /\ timer.remaining_seconds < timer.short_break_duration * 60

(* C19: set_flowtime(enabled) sets is_flowtime = enabled, zeroes           *)
(* elapsed_seconds exactly when enabled and the phase is Work, changes no  *)
(* other field, and a second call with the same argument changes nothing   *)
C19_SetFlowtimeFrame ==
    \A enabled \in BOOLEAN :
        LET s == set_flowtime(timer, enabled)
        IN  /\ s.is_flowtime = enabled
            /\ s.elapsed_seconds =
                   (IF enabled /\ timer.state = Work THEN 0 ELSE timer.elapsed_seconds)
            /\ s.remaining_seconds = timer.remaining_seconds
            /\ s.is_paused = timer.is_paused
            /\ s.state = timer.state
            /\ s.session_count = timer.session_count
            /\ s.accumulated = timer.accumulated
            /\ set_flowtime(s, enabled) = s

(* a running classic break holding a count-up left by an earlier flowtime  *)
(* Work: set_flowtime(true) must keep it                                   *)
C19_Witness ==
    /\ ~timer.is_flowtime
    /\ timer.state # Work
    /\ timer.elapsed_seconds > 0
    /\ ~timer.is_paused
    /\ timer.accumulated > 0

(* C20: toggle_pause() flips is_paused and changes nothing else but the    *)
(* last-tick timestamp, which it sets to now when the timer starts         *)
(* running; a second toggle restores is_paused                             *)
C20_TogglePauseFrame ==
    LET s == toggle_pause(timer)
    IN  /\ s.is_paused = ~timer.is_paused
        /\ s = [timer EXCEPT !.is_paused = s.is_paused,
                             !.since_last_tick = s.since_last_tick]
        /\ s.since_last_tick = (IF timer.is_paused THEN 0 ELSE timer.since_last_tick)
        /\ toggle_pause(s).is_paused = timer.is_paused

(* paused in a flowtime long break in mid-countdown, with a carry, time    *)
(* having passed since the last call                                       *)
C20_Witness ==
    /\ timer.is_paused
    /\ timer.is_flowtime
    /\ timer.state = LongBreak
    /\ timer.accumulated > 0
    /\ timer.since_last_tick = MaxGap
    /\ timer.remaining_seconds < timer.long_break_duration * 60

-----------------------------------------------------------------------------
(* Pauses and resumes measured by the wall clock itself: run_clock counts  *)
(* the units that pass while the timer runs, pause_clock those that passed *)
(* during the pause before the run                                         *)

ResumeAdvance ==
    \E d \in Gaps :
        /\ timer.since_last_tick + d <= MaxGap
        /\ timer' = [timer EXCEPT !.since_last_tick = @ + d]
        /\ IF timer.is_paused
           THEN /\ pause_clock + d <= MaxWall
                /\ pause_clock' = pause_clock + d
                /\ UNCHANGED run_clock
           ELSE /\ run_clock + d <= MaxWall
                /\ run_clock' = run_clock + d
                /\ UNCHANGED pause_clock
        /\ UNCHANGED <<run_wall, run_applied, run_carry, nskips, app, settings_clock>>

ResumeTick ==
    /\ WithinBounds(tick(timer))
    /\ timer' = tick(timer)
    /\ IF timer.is_paused
       THEN UNCHANGED <<run_applied, run_carry, run_clock, pause_clock>>
       ELSE IF timer'.is_paused
            THEN run_applied' = 0 /\ run_carry' = 0 /\ run_clock' = 0 /\ pause_clock' = 0
            ELSE /\ run_applied' = run_applied
                        + (timer.remaining_seconds - timer'.remaining_seconds)
                        + (timer'.elapsed_seconds - timer.elapsed_seconds)
                 /\ UNCHANGED <<run_carry, run_clock, pause_clock>>
    /\ UNCHANGED <<run_wall, nskips, app, settings_clock>>

ResumeTogglePause ==
    /\ timer' = toggle_pause(timer)
    /\ run_applied' = 0
    /\ run_clock' = 0
    /\ run_carry' = IF timer.is_paused THEN timer.accumulated ELSE 0
    /\ pause_clock' = IF timer.is_paused THEN pause_clock ELSE 0
    /\ UNCHANGED <<run_wall, nskips, app, settings_clock>>

NextResume ==
    \/ ResumeAdvance
    \/ ResumeTick
    \/ ResumeTogglePause

InitResume ==
    /\ \E d \in DriftDurations, f \in BOOLEAN :
          timer = set_flowtime(with_sessions(d[1], d[2], d[3], 1), f)
    /\ run_wall = 0
    /\ run_applied = 0
    /\ run_carry = 0
    /\ nskips = 0
    /\ Unhosted

SpecResume == InitResume /\ [][NextResume]_vars

(* wall-clock units of the current run that the ticks have been shown: all *)
(* but those since the last call                                           *)
RunShown == run_clock - timer.since_last_tick

(* C21: in a run begun by toggle_pause() after a pause of any length, with *)
(* or without tick() calls during it, the seconds applied by the ticks are *)
(* floor(c + T): T the wall-clock time of the run up to the last tick, c   *)
(* the sub-second carry held through the pause; no part of the pause is in *)
(* it                                                                      *)
C21_ResumeNeverCatchesUp ==
    ~timer.is_paused =>
        /\ RunShown >= 0
        /\ run_applied = (run_carry + RunShown) \div SubPerSec
        /\ timer.accumulated = (run_carry + RunShown) % SubPerSec

(* a run after a pause longer than any gap between calls, so that tick()   *)
(* was called during the pause: charging the pause would have applied more *)
(* seconds than the ticks of the run have                                  *)
C21_Witness ==
    /\ ~timer.is_paused
    /\ pause_clock > MaxGap
    /\ run_carry > 0
    /\ timer.since_last_tick = 0
    /\ run_applied >= 1
    /\ run_applied < (run_carry + pause_clock + run_clock) \div SubPerSec

-----------------------------------------------------------------------------
(* Further claims about single operations, stated of the operation's       *)
(* result in every reachable state of Spec                                 *)

(* C22: add_time(s) adds exactly s to remaining_seconds in every phase and *)
(* mode, flowtime Work included, and changes no other field: phase,        *)
(* is_paused, session_count, elapsed_seconds and is_flowtime stay          *)
C22_AddTimeFrame ==
    \A sec \in SnoozeSeconds \cup {0} :
        LET s == add_time(timer, sec)
        IN  /\ s.remaining_seconds = timer.remaining_seconds + sec
            /\ s.state = timer.state
            /\ s.is_paused = timer.is_paused
            /\ s.session_count = timer.session_count
            /\ s.elapsed_seconds = timer.elapsed_seconds
            /\ s.is_flowtime = timer.is_flowtime
            /\ s = [timer EXCEPT !.remaining_seconds = s.remaining_seconds]

(* flowtime Work, running and counting up, to which add_time(1) has been   *)
(* applied: remaining_seconds is one above the work duration               *)
C22_Witness ==
    /\ FlowtimeWork(timer)
    /\ ~timer.is_paused
    /\ timer.elapsed_seconds > 0
    /\ timer.accumulated > 0
    /\ timer.work_duration > 0
    /\ timer.remaining_seconds = timer.work_duration * 60 + 1

(* C23: in classic mode progress_percent() is 0 when a phase is entered,   *)
(* by construction, by skip(), by the automatic transition or by           *)
(* full_reset(), and 100 when remaining_seconds is 0, as it is in tick()   *)
(* just before the automatic transition; it is 0 throughout flowtime Work, *)
(* and 0 when the phase's configured duration is 0 minutes                 *)
C23_ProgressBoundary ==
    LET s == skip(timer)
        a == tick(timer)
        f == full_reset(timer)
        d == drained(timer)
        c == with_sessions(timer.work_duration, timer.short_break_duration,
                           timer.long_break_duration, timer.sessions_until_long_break)
    IN  /\ IsPercent(progress_percent(c), 0)
        /\ ~timer.is_flowtime =>
              /\ s.state # timer.state
              /\ IsPercent(progress_percent(s), 0)
              /\ IsPercent(progress_percent(f), 0)
              /\ a.state # timer.state => IsPercent(progress_percent(a), 0)
              /\ (~timer.is_paused /\ d.remaining_seconds = 0
                     /\ duration_for_state(d, d.state) # 0) =>
                    IsPercent(progress_percent(d), 100)
              /\ (timer.remaining_seconds = 0
                     /\ duration_for_state(timer, timer.state) # 0) =>
                    IsPercent(progress_percent(timer), 100)
        /\ (timer.is_flowtime /\ timer.state = Work) =>
              IsPercent(progress_percent(timer), 0)
        /\ duration_for_state(timer, timer.state) = 0 =>
              IsPercent(progress_percent(timer), 0)

(* a classic long break running its last second: the next tick() finds     *)
(* remaining_seconds = 0 and enters Work                                   *)
C23_Witness ==
    /\ ~timer.is_flowtime
    /\ ~timer.is_paused
    /\ timer.state = LongBreak
    /\ timer.long_break_duration > 0
    /\ timer.work_duration > 0
    /\ timer.remaining_seconds = 1
    /\ drained(timer).remaining_seconds = 0
    /\ tick(timer).state = Work

-----------------------------------------------------------------------------
(* The default timer (25, 5, 15, 4) started once and then only ticked, at  *)
(* irregular gaps, for the length of its work phase                        *)

(* 25 * 60 seconds of wall clock *)
ScenarioWall == DefaultConfig.work_duration * SecsPerMin * SubPerSec

ScenarioAdvance ==
    \E d \in Gaps :
        /\ timer.since_last_tick + d <= MaxGap
        /\ run_clock + d <= ScenarioWall
        /\ timer' = [timer EXCEPT !.since_last_tick = @ + d]
        /\ run_clock' = run_clock + d
        /\ UNCHANGED <<run_wall, run_applied, run_carry, nskips, pause_clock, app, settings_clock>>

ScenarioTick ==
    /\ timer' = tick(timer)
    /\ UNCHANGED <<app, observers>>

NextScenario ==
    \/ ScenarioAdvance
    \/ ScenarioTick

InitScenario ==
    /\ timer = toggle_pause(
                   with_sessions(DefaultConfig.work_duration, DefaultConfig.short_break,
                                 DefaultConfig.long_break,
                                 DefaultConfig.sessions_until_long))
    /\ run_wall = 0
    /\ run_applied = 0
    /\ run_carry = 0
    /\ nskips = 0
    /\ Unhosted

SpecScenario == InitScenario /\ [][NextScenario]_vars

(* the ticks have been shown all 1500 s: the last call was made at 1500 s *)
ScenarioDone == run_clock = ScenarioWall /\ timer.since_last_tick = 0

(* C24 as stated: after gaps totalling exactly 1500 s the timer has        *)
(* remaining_seconds = 0, phase ShortBreak, session_count 1 and is paused  *)
C24_ScenarioEndsAtZero ==
    ScenarioDone =>
        /\ timer.remaining_seconds = 0
        /\ timer.state = ShortBreak
        /\ timer.session_count = 1
        /\ timer.is_paused

(* C24 amended: remaining_seconds reaches 0 in the last tick, whose        *)
(* automatic transition re-arms it: the timer ends in ShortBreak with      *)
(* remaining_seconds = 300, session_count 1, paused; until then it is      *)
(* running in Work with 1500 less the whole seconds shown                  *)
C24_ScenarioEndsReArmed ==
    IF ScenarioDone
    THEN /\ timer.remaining_seconds = 300
         /\ timer.state = ShortBreak
         /\ timer.session_count = 1
         /\ timer.is_paused
         /\ timer.elapsed_seconds = 0
    ELSE /\ timer.state = Work
         /\ ~timer.is_paused
         /\ timer.remaining_seconds = 1500 - (RunShown \div SubPerSec)
         /\ timer.remaining_seconds > 0

(* the end of the scenario *)
C24_Witness ==
    /\ ScenarioDone
    /\ timer.state = ShortBreak
    /\ timer.is_paused

-----------------------------------------------------------------------------
(* The engine with flowtime switched on just after construction and never  *)
(* switched off                                                            *)

InitFlowtime ==
    /\ \E d \in DurationChoices, n \in Sessions :
          timer = set_flowtime(with_sessions(d[1], d[2], d[3], n), TRUE)
    /\ run_wall = 0
    /\ run_applied = 0
    /\ run_carry = 0
    /\ nskips = 0
    /\ Unhosted

NextFlowtime ==
    \/ Advance
    \/ Tick
    \/ TogglePause
    \/ Reset
    \/ FullReset
    \/ Skip
    \/ EndWork
    \/ AddTime

SpecFlowtime == InitFlowtime /\ [][NextFlowtime]_vars

(* C25: with is_flowtime on from construction and never switched off, no   *)
(* sequence of tick, toggle_pause, reset, full_reset, skip, end_work and   *)
(* add_time reaches LongBreak, whatever sessions_until_long_break is       *)
C25_FlowtimeNeverLongBreak ==
    /\ timer.is_flowtime
    /\ timer.state # LongBreak

(* a flowtime break entered by end_work() or skip() from Work at a         *)
(* session_count past sessions_until_long_break, where the classic table   *)
(* chooses LongBreak                                                       *)
C25_Witness ==
    /\ timer.is_flowtime
    /\ timer.state = ShortBreak
    /\ timer.session_count > timer.sessions_until_long_break
    /\ timer.flowtime_break_seconds = MinBreakSecs
    /\ timer.remaining_seconds < MinBreakSecs
    /\ ~timer.is_paused

-----------------------------------------------------------------------------
(* Claims about tick() and the queries, stated in every reachable state of *)
(* Spec                                                                    *)

(* C26: every second a running tick() applies changes one counter only:    *)
(* in flowtime Work elapsed_seconds + 1 with remaining_seconds untouched,  *)
(* otherwise remaining_seconds - 1, stopping at 0, with elapsed_seconds    *)
(* untouched; so do all the seconds of one tick(); and display_time() is   *)
(* that counter as (minutes, seconds), before and after                    *)
C26_OneCounterAuthoritative ==
    LET one == apply_second(timer)
        d == drained(timer)
        k == WholeSeconds(timer)
        Shown(t) == IF t.is_flowtime /\ t.state = Work
                    THEN <<t.elapsed_seconds \div 60, t.elapsed_seconds % 60>>
                    ELSE <<t.remaining_seconds \div 60, t.remaining_seconds % 60>>
    IN  /\ IF timer.is_flowtime /\ timer.state = Work
           THEN /\ one.elapsed_seconds = timer.elapsed_seconds + 1
                /\ one.remaining_seconds = timer.remaining_seconds
                /\ d.elapsed_seconds = timer.elapsed_seconds + k
                /\ d.remaining_seconds = timer.remaining_seconds
           ELSE /\ one.remaining_seconds = Max(0, timer.remaining_seconds - 1)
                /\ one.elapsed_seconds = timer.elapsed_seconds
                /\ d.remaining_seconds = Max(0, timer.remaining_seconds - k)
                /\ d.elapsed_seconds = timer.elapsed_seconds
        /\ d.state = timer.state /\ d.is_flowtime = timer.is_flowtime
        /\ display_time(timer) = Shown(timer)
        /\ display_time(d) = Shown(d)
        /\ display_time(tick(timer)) = Shown(tick(timer))

(* flowtime Work running with a second to apply, its two counters showing  *)
(* different times: 0:01 counted up, 1:01 left on the countdown            *)
C26_Witness ==
    /\ timer.is_flowtime
    /\ timer.state = Work
    /\ ~timer.is_paused
    /\ WholeSeconds(timer) >= 1
    /\ timer.elapsed_seconds = 1
    /\ timer.remaining_seconds = 61

-----------------------------------------------------------------------------
(* The App: its handlers called in any order that the key bindings of      *)
(* run() allow, and tick() called by the loop. The wall clock moves in     *)
(* whole minutes                                                           *)

OneMinute == SecsPerMin * SubPerSec

(* time between two readings of the clock: less than a second, or a minute *)
HostGaps == {0, OneMinute}

(* <<work, short break, long break>> minutes of the config file *)
HostDurations == <<1, 1, 1>>

HostSessions == 2

HostConfigs ==
    { [ work_duration        |-> HostDurations[1],
        short_break          |-> HostDurations[2],
        long_break           |-> HostDurations[3],
        sessions_until_long  |-> HostSessions,
        auto_start           |-> a,
        mode                 |-> m,
        break_snooze_enabled |-> FALSE ] : a \in BOOLEAN, m \in FocusMode }

(* the durations the settings editor is followed to: those of the config   *)
(* file, work + 5 and short break + 1                                      *)
EditedDurations ==
    { HostDurations,
      <<HostDurations[1] + DurationStep, HostDurations[2], HostDurations[3]>>,
      <<HostDurations[1], HostDurations[2] + 1, HostDurations[3]>> }

HostWithinBounds(h) ==
    /\ h.timer.elapsed_seconds <= SecsPerMin
    /\ h.timer.session_count <= MaxSessionCount
    /\ <<h.app.config.work_duration, h.app.config.short_break,
         h.app.config.long_break>> \in EditedDurations

(* the step leaves the App as the handler's result h; what the handler     *)
(* asked of the recorder and the notifier is not kept                      *)
Becomes(h) ==
    /\ HostWithinBounds(h)
    /\ timer' = h.timer
    /\ app' = h.app
    /\ UNCHANGED observers

(* the App as a handler finds it *)
here == Host(timer, app, NoEffects)

InitApp ==
    /\ \E config \in HostConfigs, db \in BOOLEAN :
          /\ timer = App_new_timer(config)
          /\ app = App_new(config, db)
    /\ run_wall = 0
    /\ run_applied = 0
    /\ run_carry = 0
    /\ nskips = 0
    /\ run_clock = 0
    /\ pause_clock = 0
    /\ settings_clock = 0

(* the loop's call of tick(), d units after the timer last read the clock *)
AppTick ==
    \E d \in HostGaps, ok \in BOOLEAN :
        Becomes(App_tick(Host([timer EXCEPT !.since_last_tick = d], app, NoEffects), ok))

AppTogglePause ==
    /\ app.view = TimerView
    /\ \E ok \in BOOLEAN : Becomes(App_toggle_pause(here, ok))

AppReset == app.view = TimerView /\ Becomes(App_reset(here))

AppFullReset == app.view = TimerView /\ Becomes(App_full_reset(here))

AppSkip == app.view = TimerView /\ Becomes(App_skip(here))

AppCycleFocusMode == app.view = TimerView /\ Becomes(cycle_focus_mode(here))

AppToggleSettings == app.view = TimerView /\ Becomes(toggle_settings(here))

AppSettingsUp == app.view = SettingsView /\ Becomes(settings_up(here))

AppSettingsDown == app.view = SettingsView /\ Becomes(settings_down(here))

AppSettingsSelect == app.view = SettingsView /\ Becomes(settings_select(here))

AppSettingsLeave == app.view = SettingsView /\ Becomes(settings_leave(here))

NextApp ==
    \/ AppTick
    \/ AppTogglePause
    \/ AppReset
    \/ AppFullReset
    \/ AppSkip
    \/ AppCycleFocusMode
    \/ AppToggleSettings
    \/ AppSettingsUp
    \/ AppSettingsDown
    \/ AppSettingsSelect
    \/ AppSettingsLeave

SpecApp == InitApp /\ [][NextApp]_vars

(* the items of the settings list that edit a duration *)
DurationItems == {"WorkDuration", "ShortBreak", "LongBreak"}

(* C27: when Enter applies the edit of a duration, the timer's phase and   *)
(* session_count are what they were before                                 *)
C27_DurationEditKeepsPhase ==
    (app.view = SettingsView /\ app.editing /\ settings_item(here) \in DurationItems) =>
        LET h == settings_select(here)
        IN  /\ h.timer.state = timer.state
            /\ h.timer.session_count = timer.session_count

(* C28: a tick() of the App whose engine tick changes the phase asks the   *)
(* recorder once to complete the old phase with completed = true and the  *)
(* notifier once for the old phase; a tick() that does not change the      *)
(* phase asks neither; skip() asks the recorder once for the old phase     *)
(* with completed = false, on which no session is marked completed, and    *)
(* does not notify                                                         *)
C28_CompletionSignal ==
    /\ \A d \in HostGaps, ok \in BOOLEAN :
          LET before == [timer EXCEPT !.since_last_tick = d]
              h == App_tick(Host(before, app, NoEffects), ok)
              automatic == app.view = TimerView /\ tick(before).state # timer.state
          IN  IF automatic
              THEN /\ h.effects.recorded = <<[state |-> timer.state, completed |-> TRUE]>>
                   /\ h.effects.notified = <<timer.state>>
                   /\ Len(h.effects.completed) <= 1
                   /\ \A i \in 1 .. Len(h.effects.completed) :
                         h.effects.completed[i].session = timer.state
              ELSE /\ h.effects.recorded = <<>>
                   /\ h.effects.notified = <<>>
                   /\ h.effects.completed = <<>>
                   /\ h.timer.state = timer.state
    /\ LET s == App_skip(here)
       IN  /\ s.effects.recorded = <<[state |-> timer.state, completed |-> FALSE]>>
           /\ s.effects.completed = <<>>
           /\ s.effects.notified = <<>>
           /\ s.timer.state # timer.state

(* a classic Work phase of one minute running in the Timer view with its   *)
(* session being recorded and auto-start on: a tick a minute later         *)
(* completes it, a skip abandons it                                        *)
C28_Witness ==
    /\ app.view = TimerView
    /\ app.db
    /\ app.current_session_id = Work
    /\ app.config.auto_start
    /\ ~timer.is_flowtime
    /\ timer.state = Work
    /\ ~timer.is_paused
    /\ timer.remaining_seconds = SecsPerMin
    /\ App_tick(Host([timer EXCEPT !.since_last_tick = OneMinute], app, NoEffects),
                TRUE).effects.completed # <<>>

-----------------------------------------------------------------------------
(* Construction alone: Timer::new and Timer::with_sessions over sample      *)
(* arguments, among them the first work_minutes whose product with 60       *)
(* leaves u32. A debug build panics there and constructs nothing; a         *)
(* release build constructs the engine with the wrapped product             *)

MinuteSamples == {0, 1, 25, DurationMax, U32MaxMinutes + 1}

BreakSamples == {0, 1, 5, 15}

SessionSamples == {0, 1, 2, DefaultSessions}

InitConstruct ==
    /\ timer = new(DefaultConfig.work_duration, DefaultConfig.short_break,
                   DefaultConfig.long_break)
    /\ run_wall = 0
    /\ run_applied = 0
    /\ run_carry = 0
    /\ nskips = 0
    /\ Unhosted

ConstructNew ==
    /\ \E w \in MinuteSamples, s \in BreakSamples, l \in BreakSamples,
          release \in BOOLEAN :
          /\ release \/ minutes_to_seconds_defined(w)
          /\ timer' = new(w, s, l)
    /\ UNCHANGED <<run_wall, run_applied, run_carry, nskips, run_clock, pause_clock, app, settings_clock>>

ConstructWithSessions ==
    /\ \E w \in MinuteSamples, s \in BreakSamples, l \in BreakSamples,
          n \in SessionSamples, release \in BOOLEAN :
          /\ release \/ minutes_to_seconds_defined(w)
          /\ timer' = with_sessions(w, s, l, n)
    /\ UNCHANGED <<run_wall, run_applied, run_carry, nskips, run_clock, pause_clock, app, settings_clock>>

NextConstruct == ConstructNew \/ ConstructWithSessions

SpecConstruct == InitConstruct /\ [][NextConstruct]_vars

(* C29: every constructed engine, the arguments being the ones it stores,  *)
(* is in Work with remaining_seconds = work_minutes * 60 (stated by         *)
(* quotient and remainder), elapsed_seconds 0, paused, session_count 1,     *)
(* classic, and cycle length equal to the argument, which is 4 for the      *)
(* three-argument constructor                                               *)
C29_Construction ==
    LET t == with_sessions(timer.work_duration, timer.short_break_duration,
                           timer.long_break_duration, timer.sessions_until_long_break)
    IN /\ t = [timer EXCEPT !.since_last_tick = t.since_last_tick,
                            !.accumulated = t.accumulated]
       /\ t.state = Work
       /\ t.remaining_seconds \div SecsPerMin = timer.work_duration
       /\ t.remaining_seconds % SecsPerMin = 0
       /\ t.elapsed_seconds = 0
       /\ t.is_paused
       /\ t.session_count = 1
       /\ ~t.is_flowtime
       /\ new(timer.work_duration, timer.short_break_duration,
              timer.long_break_duration).sessions_until_long_break = DefaultSessions

-----------------------------------------------------------------------------
(* The engine driven by any caller, every configured duration non-zero *)

NonZeroDurations == {d \in DurationChoices : d[1] > 0 /\ d[2] > 0 /\ d[3] > 0}

InitNonZero ==
    /\ \E d \in NonZeroDurations, n \in Sessions :
          timer = with_sessions(d[1], d[2], d[3], n)
    /\ run_wall = 0
    /\ run_applied = 0
    /\ run_carry = 0
    /\ nskips = 0
    /\ Unhosted

SpecNonZero == InitNonZero /\ [][Next]_vars

(* C30: with every configured duration non-zero, a paused timer whose      *)
(* countdown is authoritative (classic mode, or a break) has               *)
(* remaining_seconds > 0, also after flowtime is switched off in a Work     *)
(* phase that was entered under flowtime                                    *)
C30_PausedCountdownPositive ==
    (timer.is_paused /\ ~FlowtimeWork(timer)) => timer.remaining_seconds > 0

-----------------------------------------------------------------------------
(* One tick(), one transition *)

(* the whole seconds a running tick() drains beyond the countdown's end *)
Excess(t) == WholeSeconds(t) - t.remaining_seconds

(* tick() moved the timer t one step along the table into a: the next      *)
(* phase and session_count of the table, paused, the accumulator zero      *)
OneTableStep(t, a) ==
    /\ a.state = next_state(t)
    /\ a.session_count = next_session_count(t)
    /\ a.is_paused
    /\ a.accumulated = 0

(* tick() left the timer t in its phase: the pause flag and session_count  *)
(* are as they were                                                        *)
NoTableStep(t, a) ==
    /\ a.state = t.state
    /\ a.session_count = t.session_count
    /\ a.is_paused = t.is_paused

(* C31 as stated: a tick() makes no transition or exactly one, and after   *)
(* one the new phase has its full duration in remaining_seconds, whatever   *)
(* the drained seconds beyond the countdown's end                           *)
C31_OneTransitionFullDuration ==
    LET a == tick(timer)
    IN  \/ NoTableStep(timer, a)
        \/ /\ OneTableStep(timer, a)
           /\ a.remaining_seconds =
                  minutes_to_seconds(duration_for_state(timer, a.state))

(* C31 amended: after the one transition a countdown phase has its full    *)
(* duration, and Work under flowtime starts at elapsed_seconds 0 with       *)
(* remaining_seconds still the 0 the break ended with                       *)
C31_OneTransitionPerTick ==
    LET a == tick(timer)
    IN  \/ NoTableStep(timer, a)
        \/ /\ OneTableStep(timer, a)
           /\ IF FlowtimeWork(a)
              THEN a.elapsed_seconds = 0 /\ a.remaining_seconds = 0
              ELSE a.remaining_seconds =
                       minutes_to_seconds(duration_for_state(timer, a.state))

(* a running flowtime break with one second left and two whole seconds to  *)
(* drain, the Work phase after it configured with a non-zero duration: the  *)
(* tick transitions once and the second beyond the end is dropped           *)
C31_Witness ==
    /\ ~timer.is_paused
    /\ timer.is_flowtime
    /\ timer.state = ShortBreak
    /\ timer.work_duration > 0
    /\ timer.remaining_seconds = 1
    /\ Excess(timer) = 1
    /\ tick(timer).state = Work

-----------------------------------------------------------------------------
(* The host and the engine's mode *)

(* C32: after any sequence of host operations the engine's is_flowtime is  *)
(* true exactly when the configured focus mode is Flowtime                  *)
C32_FlowtimeMirrorsConfig ==
    timer.is_flowtime <=> (app.config.mode = Flowtime)

-----------------------------------------------------------------------------
(* The count-up starts at zero *)

(* the results of every operation of the engine applied to t *)
Results(t) ==
    {tick(t), toggle_pause(t), reset(t), full_reset(t), skip(t), end_work(t)}
        \cup {add_time(t, sec) : sec \in SnoozeSeconds}
        \cup {set_flowtime(t, enabled) : enabled \in BOOLEAN}

(* C33: an operation that makes the count-up authoritative (a transition   *)
(* from a break into Work under flowtime, set_flowtime(true) during Work)  *)
(* leaves elapsed_seconds 0 and so displays 00:00, whatever stale value     *)
(* elapsed_seconds held; full_reset enters Work with elapsed_seconds 0      *)
C33_CountUpStartsAtZero ==
    /\ \A s \in Results(timer) :
          (~FlowtimeWork(timer) /\ FlowtimeWork(s)) =>
              /\ s.elapsed_seconds = 0
              /\ display_time(s) = <<0, 0>>
    /\ full_reset(timer).state = Work
    /\ full_reset(timer).elapsed_seconds = 0

(* a running flowtime break about to expire while elapsed_seconds still    *)
(* holds the count of the Work phase before it                              *)
C33_Witness ==
    /\ timer.is_flowtime
    /\ timer.state = ShortBreak
    /\ ~timer.is_paused
    /\ timer.elapsed_seconds > 0
    /\ tick(timer).state = Work

-----------------------------------------------------------------------------
(* Auto-start *)

(* C34: a tick() of the App whose engine tick changes the phase leaves the *)
(* timer running in the new phase when auto_start is set, and then asks    *)
(* the database for a new session exactly when the new phase is Work (the  *)
(* session is held when the database answers with an id); it leaves the    *)
(* timer paused and asks for no session when auto_start is not set. A      *)
(* skip leaves the timer paused and asks for no session, whatever          *)
(* auto_start is                                                           *)
C34_AutoStart ==
    /\ \A d \in HostGaps, ok \in BOOLEAN :
          LET before == [timer EXCEPT !.since_last_tick = d]
              engine == tick(before)
              h == App_tick(Host(before, app, NoEffects), ok)
          IN  (app.view = TimerView /\ engine.state # timer.state) =>
                  /\ h.timer.state = engine.state
                  /\ h.timer.is_paused = ~app.config.auto_start
                  /\ h.timer = IF app.config.auto_start
                               THEN [engine EXCEPT !.is_paused = FALSE]
                               ELSE engine
                  /\ h.effects.started =
                         IF app.config.auto_start /\ engine.state = Work /\ app.db
                         THEN <<Work>> ELSE <<>>
                  /\ h.app.current_session_id =
                         IF app.config.auto_start /\ engine.state = Work /\ app.db /\ ok
                         THEN Work ELSE None
    /\ LET s == App_skip(here)
       IN  /\ s.timer.is_paused
           /\ s.effects.started = <<>>
           /\ s.app.current_session_id = None

(* a running break of one minute in the Timer view with auto-start on and  *)
(* the database open: the tick a minute later starts Work and its session  *)
C34_Witness ==
    /\ app.view = TimerView
    /\ app.db
    /\ app.config.auto_start
    /\ timer.state = ShortBreak
    /\ ~timer.is_paused
    /\ timer.remaining_seconds = SecsPerMin
    /\ LET h == App_tick(Host([timer EXCEPT !.since_last_tick = OneMinute],
                              app, NoEffects), TRUE)
       IN  /\ h.timer.state = Work
           /\ ~h.timer.is_paused
           /\ h.app.current_session_id = Work

-----------------------------------------------------------------------------
(* The Timer view with the snooze key: break snooze enabled or not in the  *)
(* config file, the settings left as they are                              *)

SnoozeConfigs ==
    { [config EXCEPT !.break_snooze_enabled = enabled] :
          config \in HostConfigs, enabled \in BOOLEAN }

InitSnooze ==
    /\ \E config \in SnoozeConfigs, db \in BOOLEAN :
          /\ timer = App_new_timer(config)
          /\ app = App_new(config, db)
    /\ run_wall = 0
    /\ run_applied = 0
    /\ run_carry = 0
    /\ nskips = 0
    /\ run_clock = 0
    /\ pause_clock = 0
    /\ settings_clock = 0

(* key 'z'; the model follows MaxSnoozes snoozes of a break *)
AppSnoozeBreak ==
    /\ app.view = TimerView
    /\ App_snooze_break(here).timer.remaining_seconds
           <= (MaxSnoozes + 1) * SecsPerMin
    /\ Becomes(App_snooze_break(here))

NextSnooze ==
    \/ AppTick
    \/ AppTogglePause
    \/ AppReset
    \/ AppFullReset
    \/ AppSkip
    \/ AppCycleFocusMode
    \/ AppSnoozeBreak

SpecSnooze == InitSnooze /\ [][NextSnooze]_vars

(* C35: snooze_break changes nothing when break snooze is disabled or the  *)
(* phase is Work; in a break it adds the configured length of that break,  *)
(* in seconds, to remaining_seconds and changes nothing else               *)
C35_HostSnooze ==
    LET h == App_snooze_break(here)
    IN  /\ h.app = app
        /\ h.effects = NoEffects
        /\ IF ~app.config.break_snooze_enabled \/ timer.state = Work
           THEN h.timer = timer
           ELSE /\ h.timer.remaining_seconds = timer.remaining_seconds +
                       SecsPerMin * (IF timer.state = ShortBreak
                                     THEN app.config.short_break
                                     ELSE app.config.long_break)
                /\ h.timer = [timer EXCEPT !.remaining_seconds =
                                               h.timer.remaining_seconds]

(* with break snooze enabled, a running long break that was snoozed: its   *)
(* remaining_seconds exceeds the configured length                         *)
C35_Witness ==
    /\ app.view = TimerView
    /\ app.config.break_snooze_enabled
    /\ timer.state = LongBreak
    /\ ~timer.is_paused
    /\ timer.remaining_seconds > minutes_to_seconds(app.config.long_break)

-----------------------------------------------------------------------------
(* Session recording *)

(* C36: a session is held in current_session_id only while the phase is    *)
(* Work, and it is a Work session; the tick that leaves Work, skip, reset   *)
(* and full_reset leave none held, and no handler asks the database for a   *)
(* session of a break                                                       *)
C36_RecordingOnlyInWork ==
    /\ app.current_session_id # None =>
           (timer.state = Work /\ app.current_session_id = Work)
    /\ App_skip(here).app.current_session_id = None
    /\ App_reset(here).app.current_session_id = None
    /\ App_full_reset(here).app.current_session_id = None
    /\ \A d \in HostGaps, ok \in BOOLEAN :
          LET h == App_tick(Host([timer EXCEPT !.since_last_tick = d], app, NoEffects), ok)
              p == App_toggle_pause(here, ok)
          IN  /\ (timer.state = Work /\ h.timer.state # Work) =>
                     h.app.current_session_id = None
              /\ \A i \in 1 .. Len(h.effects.started) : h.effects.started[i] = Work
              /\ \A i \in 1 .. Len(p.effects.started) : p.effects.started[i] = Work

(* a running flowtime Work phase in the Timer view whose session is held   *)
C36_Witness ==
    /\ app.view = TimerView
    /\ app.current_session_id = Work
    /\ FlowtimeWork(timer)
    /\ ~timer.is_paused
    /\ timer.elapsed_seconds > 0

-----------------------------------------------------------------------------
(* Flowtime work is never completed *)

(* C37: while the engine is in flowtime mode no handler has a session      *)
(* marked completed (db.complete_session is the one place the counters of  *)
(* today's sessions and work seconds grow): a tick leaves flowtime Work in *)
(* Work, and skip, reset and full_reset drop the session id held           *)
C37_FlowtimeWorkNeverCompleted ==
    timer.is_flowtime =>
        /\ \A d \in HostGaps, ok \in BOOLEAN :
              LET h == App_tick(Host([timer EXCEPT !.since_last_tick = d],
                                     app, NoEffects), ok)
              IN  /\ h.effects.completed = <<>>
                  /\ timer.state = Work =>
                         /\ h.timer.state = Work
                         /\ h.effects.recorded = <<>>
                         /\ h.app.current_session_id = app.current_session_id
        /\ \A h \in {App_skip(here), App_reset(here), App_full_reset(here)} :
              /\ h.effects.completed = <<>>
              /\ h.app.current_session_id = None

(* a flowtime Work phase entered from an expired break, running with its   *)
(* session held and remaining_seconds 0, a minute on its count-up          *)
C37_Witness ==
    /\ app.view = TimerView
    /\ app.db
    /\ app.current_session_id = Work
    /\ FlowtimeWork(timer)
    /\ ~timer.is_paused
    /\ timer.remaining_seconds = 0
    /\ timer.elapsed_seconds = SecsPerMin

-----------------------------------------------------------------------------
(* The two views and the wall clock: the loop calls tick() within MaxGap    *)
(* units of the last call, and in the Settings view, where the call does    *)
(* not reach the timer, the clock is followed for the times of AwayTimes    *)

(* wall-clock units spent in the Settings view: half a second, a minute,   *)
(* a minute and a half second                                              *)
AwayTimes == {1, OneMinute, OneMinute + 1}

InitView ==
    /\ \E config \in HostConfigs, db \in BOOLEAN :
          /\ timer = App_new_timer(config)
          /\ app = App_new(config, db)
    /\ run_wall = 0
    /\ run_applied = 0
    /\ run_carry = 0
    /\ nskips = 0
    /\ run_clock = 0
    /\ pause_clock = 0
    /\ settings_clock = 0

(* the step leaves the App as the handler's result h *)
ViewBecomes(h) ==
    /\ HostWithinBounds(h)
    /\ timer' = h.timer
    /\ app' = h.app
    /\ UNCHANGED <<run_wall, run_applied, run_carry, nskips, run_clock, pause_clock>>

ViewAdvance ==
    /\ \E d \in Gaps \cup AwayTimes :
          /\ timer' = [timer EXCEPT !.since_last_tick = @ + d]
          /\ IF app.view = TimerView
             THEN /\ timer.since_last_tick + d <= settings_clock + MaxGap
                  /\ UNCHANGED settings_clock
             ELSE /\ settings_clock + d \in AwayTimes
                  /\ settings_clock' = settings_clock + d
    /\ UNCHANGED <<run_wall, run_applied, run_carry, nskips, run_clock, pause_clock, app>>

(* the loop's call of tick(): in the Timer view the timer reads the clock *)
ViewTick ==
    /\ \E ok \in BOOLEAN : ViewBecomes(App_tick(here, ok))
    /\ settings_clock' = IF app.view = TimerView THEN 0 ELSE settings_clock

(* Space in the Timer view: a resume reads the clock, a pause does not *)
ViewTogglePause ==
    /\ app.view = TimerView
    /\ \E ok \in BOOLEAN : ViewBecomes(App_toggle_pause(here, ok))
    /\ settings_clock' = IF timer.is_paused THEN 0 ELSE settings_clock

(* Tab in the Timer view *)
ViewToggleSettings ==
    /\ app.view = TimerView
    /\ ViewBecomes(toggle_settings(here))
    /\ UNCHANGED settings_clock

(* Tab or Esc in the Settings view *)
ViewSettingsLeave ==
    /\ app.view = SettingsView
    /\ ViewBecomes(settings_leave(here))
    /\ UNCHANGED settings_clock

NextView ==
    \/ ViewAdvance
    \/ ViewTick
    \/ ViewTogglePause
    \/ ViewToggleSettings
    \/ ViewSettingsLeave

SpecView == InitView /\ [][NextView]_vars

(* seconds the operation that made a out of t charged to the counter in    *)
(* charge                                                                  *)
Charged(t, a) ==
    (t.remaining_seconds - a.remaining_seconds) + (a.elapsed_seconds - t.elapsed_seconds)

-----------------------------------------------------------------------------
(* The sub-second accumulator *)

(* C39: the accumulator holds less than one second in every reachable      *)
(* state and after every tick(), reset(), skip(), end_work() and            *)
(* full_reset(); it is zero after reset(), full_reset() and every           *)
(* operation that changes the phase, and toggle_pause() leaves it as it is  *)
C39_AccumulatorBelowOneSecond ==
    /\ timer.accumulated < OneSecond
    /\ \A s \in {tick(timer), reset(timer), skip(timer), end_work(timer),
                 full_reset(timer)} :
          /\ s.accumulated >= 0
          /\ s.accumulated < OneSecond
          /\ s.state # timer.state => s.accumulated = 0
    /\ reset(timer).accumulated = 0
    /\ full_reset(timer).accumulated = 0
    /\ skip(timer).state # timer.state
    /\ toggle_pause(timer).accumulated = timer.accumulated
    /\ toggle_pause(toggle_pause(timer)).accumulated = timer.accumulated

(* a running flowtime Work phase holding a sub-second carry, two whole     *)
(* seconds due at the next tick                                            *)
C39_Witness ==
    /\ ~timer.is_paused
    /\ FlowtimeWork(timer)
    /\ timer.accumulated > 0
    /\ timer.accumulated + timer.since_last_tick >= 2 * OneSecond
    /\ toggle_pause(timer).accumulated > 0

====
